---- MODULE Spec2Model ----
(***************************************************************************)
(* GuardianAgent: the per-call LangGraph pipeline of Backend/agent/agent.py *)
(* (nodes init .. finalize over a checkpointed GuardianState), the callers  *)
(* of process_chunk (the Flask handler of Backend/app.py, the periodic      *)
(* timer of the telephony entrypoints) and the shared_state dictionary the  *)
(* telephony process publishes.                                             *)
(*                                                                          *)
(* Risk scores are fixed-point numbers in tenths of a percentage point      *)
(* (39.9 is 399), so that the boundary values of the decision thresholds    *)
(* are representable.  Phone numbers are sequences of characters.           *)
(***************************************************************************)
EXTENDS Integers, Sequences, FiniteSets, TLC

\* ------------------------------------------------------------------ bounds
MaxRuns == 3          \* process_chunk invocations explored per behaviour
MaxTime == 150        \* the timer stops waking up here
MaxChunks == 2        \* chunks the telephony handlers capture
NumThreads == 2       \* request threads of the Flask server
MaxParallel == 2      \* requests explored on the threaded server
StartTime == 100      \* time.time() when the model starts (an epoch value)
MaxPasses == 2        \* identify_speakers passes explored per behaviour
CallGap == 30         \* seconds from the end of a call to the next call of the process

\* ------------------------------------------------------- program constants
ANALYZE_INTERVAL_SECONDS == 30
WarnThreshold == 80
QuestionThreshold == 40
KnownScamRisk == 95
PartialMatchRisk == 90
BaselineRisk == 10
TimerPeriod == 10


Tenths(p) == p * 10

Threads == 1 .. NumThreads
Calls == {"CA1"}

\* ------------------------------------------------------------ phone numbers
Digits == {"0", "1", "2", "3", "4", "5", "6", "7", "8", "9"}
IsDigit(c) == c \in Digits

NoNumber == << >>
ScamNumber == <<"+", "1", "8", "6", "5", "6", "3", "0", "4", "2", "6", "6">>
ScamNumberLocal == <<"8", "6", "5", "-", "6", "3", "0", "-", "4", "2", "6", "6">>
CleanNumber == <<"+", "1", "5", "5", "5", "0", "0", "0", "1", "1", "1", "1">>
UserNumber == <<"+", "1", "5", "5", "5", "0", "0", "0", "2", "2", "2", "2">>

_normalize_number(phone_number) == SelectSeq(phone_number, IsDigit)

EndsWith(s, suf) ==
    /\ Len(suf) <= Len(s)
    /\ SubSeq(s, Len(s) - Len(suf) + 1, Len(s)) = suf

LastN(s, n) == SubSeq(s, Len(s) - n + 1, Len(s))

\* the reputation_check dictionary; present = FALSE is the missing key
NoRep == [present |-> FALSE, risk_score |-> 0, known_scam |-> FALSE]

PartialMatch(normalized, db_number) ==
    LET last_10 == LastN(normalized, 10)
    IN  \/ EndsWith(db_number, last_10)
        \/ EndsWith(last_10, IF Len(db_number) >= 10 THEN LastN(db_number, 10) ELSE db_number)

\* scam_db is the set of normalized numbers that are keys of _scam_db
check_reputation(phone_number, scam_db) ==
    LET normalized == _normalize_number(phone_number)
    IN  IF normalized \in scam_db
        THEN [present |-> TRUE, risk_score |-> Tenths(KnownScamRisk), known_scam |-> TRUE]
        ELSE IF Len(normalized) >= 10 /\ \E d \in scam_db : PartialMatch(normalized, d)
        THEN [present |-> TRUE, risk_score |-> Tenths(PartialMatchRisk), known_scam |-> TRUE]
        ELSE [present |-> TRUE, risk_score |-> Tenths(BaselineRisk), known_scam |-> FALSE]

\* --------------------------------------------------------------- transcript
Blank == "   "
Fragments == {"f1", "f2"}
strip(text) == IF text = Blank THEN "" ELSE text

\* a transcript entry; role and timestamp are set by the telephony handlers only
Entry(speaker, text) == [speaker |-> speaker, role |-> "", text |-> text, timestamp |-> 0]

Chunk(speaker, role, text, timestamp) ==
    [speaker |-> speaker, role |-> role, text |-> text, timestamp |-> timestamp]

\* ----------------------------------------------------------------- analysis
\* risk_score is in tenths, confidence in hundredths
NoAnalysis == [present |-> FALSE, risk_score |-> 0, confidence |-> 0, model |-> ""]

\* risk scores the classifier is seen to return (tenths)
AnalysisScores == {0, 400, 800}

\* the value of a numeric field of the classifier's JSON object: a number, a
\* string that float() converts, a string it does not, null, or no such key
Raw(kind, value) == [kind |-> kind, value |-> value]

\* a request that was not made (empty transcript), no client (no API key),
\* a request that raised, a text json.loads rejects, JSON that is no object
NoResponse == [status |-> "none", risk_score |-> Raw("missing", 0),
               confidence |-> Raw("missing", 0), rest_ok |-> FALSE]
NoClient == [NoResponse EXCEPT !.status = "no_client"]
RequestFailed == [NoResponse EXCEPT !.status = "failed"]
Unparseable == [NoResponse EXCEPT !.status = "unparseable"]
NotAnObject == [NoResponse EXCEPT !.status = "not_object"]

\* a JSON object; rest_ok: reason, scam_indicators and recommended_action
\* pass the validation of ScamAnalysisResponse
JsonResponse(risk_score, confidence, rest_ok) ==
    [status |-> "json", risk_score |-> risk_score, confidence |-> confidence, rest_ok |-> rest_ok]

\* what the classifier request yields in the pipeline runs explored: a valid
\* object with one of the scores, or a failure
LlmOutcomes ==
    {JsonResponse(Raw("number", score), Raw("number", 90), TRUE) : score \in AnalysisScores}
        \cup {RequestFailed}

\* the values explored for the two numeric fields: in range, out of range
\* on either side, numeric strings, a word, null, a missing key
RawScores ==
    {Raw("number", v) : v \in {-50, 0, 400, 855, 1000, 1500}} \cup
    {Raw("numeric_string", 750), Raw("numeric_string", 2000),
     Raw("text", 0), Raw("null", 0), Raw("missing", 0)}
RawConfidences ==
    {Raw("number", v) : v \in {-20, 0, 92, 100, 150}} \cup
    {Raw("numeric_string", 85), Raw("text", 0), Raw("missing", 0)}

\* every answer of the classifier request
Responses ==
    {RequestFailed, Unparseable, NotAnObject} \cup
    {JsonResponse(r, c, ok) : r \in RawScores, c \in RawConfidences, ok \in BOOLEAN}

\* float(v) returns a number
Floatable(v) == v.kind \in {"number", "numeric_string"}

Clamp(v, lo, hi) == IF v < lo THEN lo ELSE IF v > hi THEN hi ELSE v

\* the pre-validators of ScamAnalysisResponse
validate_risk_score(v) == Clamp(v.value, 0, 1000)
validate_confidence(v) == Clamp(v.value, 0, 100)

\* ScamAnalysisResponse(**result_json) raises no validation error
Validates(result_json) ==
    /\ Floatable(result_json.risk_score)
    /\ Floatable(result_json.confidence)
    /\ result_json.rest_ok

scam_keywords ==
    [k \in {"bank", "password", "social security", "ssn", "gift card", "wire transfer",
            "account number", "verify your identity", "suspended", "frozen", "urgent",
            "immediately", "act now"} |->
        CASE k = "bank" -> 20 [] k = "password" -> 30 [] k = "social security" -> 40
          [] k = "ssn" -> 40 [] k = "gift card" -> 35 [] k = "wire transfer" -> 35
          [] k = "account number" -> 25 [] k = "verify your identity" -> 20
          [] k = "suspended" -> 25 [] k = "frozen" -> 25 [] k = "urgent" -> 15
          [] k = "immediately" -> 15 [] k = "act now" -> 20]

\* the scam keywords occurring in a text of the model
KeywordsIn(text) ==
    IF text = "f2" THEN {"bank", "gift card", "urgent"} ELSE {}

RECURSIVE SumRisk(_)
SumRisk(ks) ==
    IF ks = {} THEN 0
    ELSE LET k == CHOOSE x \in ks : TRUE IN scam_keywords[k] + SumRisk(ks \ {k})

Min(a, b) == IF a <= b THEN a ELSE b

\* mutant: the confidence of the heuristic is not capped
_fallback_analysis_uncapped(transcript) ==
    LET found == UNION {KeywordsIn(transcript[i].text) : i \in 1 .. Len(transcript)}
        base_risk == Min(10 + SumRisk(found), 100)
    IN  [present |-> TRUE, risk_score |-> Tenths(base_risk),
         confidence |-> base_risk, model |-> "fallback-heuristic"]

_fallback_analysis(transcript) ==
    LET found == UNION {KeywordsIn(transcript[i].text) : i \in 1 .. Len(transcript)}
        base_risk == Min(10 + SumRisk(found), 100)
    IN  [present |-> TRUE, risk_score |-> Tenths(base_risk),
         confidence |-> Min(base_risk, 70), model |-> "fallback-heuristic"]

\* the except branch of the validation: the values are taken from the JSON
\* object as they are, float() applied to both and only the confidence
\* clamped; a float() that raises there ends in the outer except clauses
unvalidated(transcript, result_json) ==
    LET risk == result_json.risk_score
        conf == result_json.confidence
    IN  IF (risk.kind # "missing" /\ ~Floatable(risk)) \/ (conf.kind # "missing" /\ ~Floatable(conf))
        THEN _fallback_analysis(transcript)
        ELSE [present |-> TRUE,
              risk_score |-> IF risk.kind = "missing" THEN 0 ELSE risk.value,
              confidence |-> IF conf.kind = "missing" THEN 50 ELSE Clamp(conf.value, 0, 100),
              model |-> "llm"]

\* analyze_transcript: the empty transcript short-circuits to risk 0; without
\* a client, when the request fails or its text is no JSON object, the
\* keyword heuristic answers; otherwise the classifier's answer, validated
\* or taken from the except branch of the validation
analyze_transcript(transcript, has_key, response) ==
    IF transcript = << >>
    THEN [present |-> TRUE, risk_score |-> 0, confidence |-> 0, model |-> ""]
    ELSE IF ~has_key \/ response.status # "json"
    THEN _fallback_analysis(transcript)
    ELSE IF Validates(response)
    THEN [present |-> TRUE, risk_score |-> validate_risk_score(response.risk_score),
          confidence |-> validate_confidence(response.confidence), model |-> "llm"]
    ELSE unvalidated(transcript, response)

\* ----------------------------------------------------------------- decision
NoDecision == [action |-> "", reason |-> <<"", 0, 0, 0>>, risk_score |-> 0]

Max(a, b) == IF a >= b THEN a ELSE b

\* format spec ".0f" on a score in tenths: round half to even
Fmt0(x) ==
    LET q == x \div 10
        r == x % 10
    IN  IF r < 5 THEN q
        ELSE IF r > 5 THEN q + 1
        ELSE IF q % 2 = 0 THEN q ELSE q + 1

\* mutant: the thresholds as exclusive lower bounds
ActionFor_exclusive(risk) ==
    IF risk > Tenths(WarnThreshold) THEN "warn"
    ELSE IF risk > Tenths(QuestionThreshold) THEN "question"
    ELSE "observe"

ActionFor(risk) ==
    IF risk >= Tenths(WarnThreshold) THEN "warn"
    ELSE IF risk >= Tenths(QuestionThreshold) THEN "question"
    ELSE "observe"

\* mutant: a tie between the two scores goes to the conversation analysis
ReasonFor_tie_to_transcript(phone_risk, transcript_risk, known_scam) ==
    LET risk == Max(transcript_risk, phone_risk)
    IN  IF phone_risk > 0 /\ transcript_risk > 0
        THEN IF phone_risk > transcript_risk
             THEN IF known_scam
                  THEN <<"High risk (known scam database match). Conversation analysis", Fmt0(risk), Fmt0(transcript_risk), 0>>
                  ELSE <<"Combined risk (phone, conversation)", Fmt0(risk), Fmt0(phone_risk), Fmt0(transcript_risk)>>
             ELSE <<"High risk from conversation analysis. Phone reputation", Fmt0(risk), Fmt0(phone_risk), 0>>
        ELSE IF phone_risk > 0
        THEN IF known_scam
             THEN <<"Known scam number detected", Fmt0(phone_risk), 0, 0>>
             ELSE <<"Phone reputation risk", Fmt0(phone_risk), 0, 0>>
        ELSE IF transcript_risk > 0
        THEN <<"Conversation analysis risk", Fmt0(transcript_risk), 0, 0>>
        ELSE <<"No risk detected", 0, 0, 0>>

ReasonFor(phone_risk, transcript_risk, known_scam) ==
    LET risk == Max(transcript_risk, phone_risk)
    IN  IF phone_risk > 0 /\ transcript_risk > 0
        THEN IF phone_risk >= transcript_risk
             THEN IF known_scam
                  THEN <<"High risk (known scam database match). Conversation analysis", Fmt0(risk), Fmt0(transcript_risk), 0>>
                  ELSE <<"Combined risk (phone, conversation)", Fmt0(risk), Fmt0(phone_risk), Fmt0(transcript_risk)>>
             ELSE <<"High risk from conversation analysis. Phone reputation", Fmt0(risk), Fmt0(phone_risk), 0>>
        ELSE IF phone_risk > 0
        THEN IF known_scam
             THEN <<"Known scam number detected", Fmt0(phone_risk), 0, 0>>
             ELSE <<"Phone reputation risk", Fmt0(phone_risk), 0, 0>>
        ELSE IF transcript_risk > 0
        THEN <<"Conversation analysis risk", Fmt0(transcript_risk), 0, 0>>
        ELSE <<"No risk detected", 0, 0, 0>>

\* the decision dictionary n_decide builds from the two signals
Decide(analysis, rep) ==
    LET transcript_risk == analysis.risk_score
        phone_risk == rep.risk_score
        risk == Max(transcript_risk, phone_risk)
    IN  [action |-> ActionFor(risk),
         reason |-> ReasonFor(phone_risk, transcript_risk, rep.known_scam),
         risk_score |-> risk]

\* mutant: only a risk of 90 or more is reported
should_report_to_authorities_strict(decision) ==
    decision.action = "warn" /\ decision.risk_score >= Tenths(90)

\* report_to_authorities.should_report_to_authorities; a missing action reads
\* as "observe" and a missing risk_score as 0
should_report_to_authorities(decision) ==
    decision.action = "warn" /\ decision.risk_score >= Tenths(80)

\* ------------------------------------------------------------ GuardianState
\* call_started_at = 0, last_analysis_ts = 0 and the No* records are the
\* missing keys of the total=False TypedDict.
EmptyState ==
    [call_sid |-> "", user_number |-> NoNumber, caller_number |-> NoNumber,
     call_started_at |-> 0,
     transcript |-> << >>, last_chunk |-> "", speaker |-> "",
     last_analysis_ts |-> 0, should_analyze_now |-> FALSE,
     reputation_check |-> NoRep,
     analysis |-> NoAnalysis,
     decision |-> NoDecision,
     guardian_utterance_text |-> "", guardian_utterance_audio_url |-> "",
     scam_processed |-> FALSE, scam_report_result |-> "",
     activity |-> << >>,
     current_tool |-> "", current_tool_description |-> ""]

_log(state, stage) == [state EXCEPT !.activity = Append(@, stage)]

VARIABLES
    now,            \* time.time()
    ckpt,           \* MemorySaver: the checkpointed GuardianState per thread_id
    pc,             \* per thread: the graph node about to run
    st,             \* per thread: the state flowing through the graph
    nruns,          \* process_chunk invocations so far
    scam_file,      \* scam_numbers.json: the numbers stored in the file
    scam_cache,     \* check_phone_reputation._scam_db
    api_key,        \* OPENAI_API_KEY is set
    program,        \* which telephony entrypoint runs
    shared,         \* shared_state of the telephony process
    snapshot,       \* shared_state.json as last written
    timer_pc,       \* guardian_pipeline_timer: "sleep", "running" or "stopped"
    add_calls,      \* add_scam_to_database invocations, per call_sid
    analyze_calls,  \* analyze_transcript invocations, per call_sid
    last_analyze_at,\* when analyze_transcript was last invoked, per call_sid
    last_analyzed,  \* the transcript passed to the latest analyze_transcript
    last_response,  \* what the classifier request of the latest analyze_transcript yielded
    captured,       \* every chunk the telephony handlers appended, in order
    submitted,      \* the non-empty texts passed to process_chunk, in order
    rep_calls,      \* check_reputation invocations, per call_sid
    file_pc,        \* shared_state.json: "closed", or "writing" (truncated, partly written)
    prev_snapshot,  \* shared_state.json as it was before the latest save began
    flask_view,     \* shared_state of the backend process, as get_shared_state returns it
    reader_pc,      \* GET /calls/state: "idle" or "loaded"
    ident_pending,  \* _identify_speaker_async tasks created and not yet started
    ident_running,  \* the transcripts identify_speakers is working on in the executor
    resolved,       \* indices of shared_state["transcript"] a pass has given a label
    last_pass,      \* the latest identify_speakers pass: its input and the classifier's answer
    participants,   \* the participants the entrypoint waited for
    connected,      \* the participants in the room
    hangup_pending, \* on_call_hangup tasks created and not yet run
    sms_calls,      \* send_family_alert_sms invocations, per call_sid
    flag_at_add     \* state["scam_processed"] when add_scam_to_database was last invoked, per call_sid

pipeline == <<ckpt, pc, st>>
files == <<scam_file, scam_cache>>
config == <<api_key, program>>
export == <<file_pc, prev_snapshot, flask_view, reader_pc>>
speakers == <<ident_pending, ident_running, resolved, last_pass>>
hangup == <<participants, connected, hangup_pending>>
telephony == <<shared, snapshot, timer_pc, captured, export, speakers, hangup>>
calls_made == <<add_calls, analyze_calls, last_analyze_at, last_analyzed, last_response,
                submitted, rep_calls, sms_calls, flag_at_add>>

vars == <<now, nruns, pipeline, files, config, telephony, calls_made>>

\* ------------------------------------------------------------- collaborators
\* scam_numbers.json as check_phone_reputation loads it: normalized keys
LoadedDb(file) == {_normalize_number(n) : n \in file}

\* _load_scam_database: the module global is filled on first use only
_load_scam_database(cache, file) ==
    IF cache.loaded THEN cache ELSE [loaded |-> TRUE, db |-> LoadedDb(file)]

\* add_scam_to_database: outcome and new file contents; io_ok = FALSE is a
\* failure to read or write the file
add_scam_to_database(phone_number, file, io_ok) ==
    IF ~io_ok THEN [success |-> FALSE, message |-> "Scam processing completed", file |-> file]
    ELSE IF \E n \in file : _normalize_number(n) = _normalize_number(phone_number)
    THEN [success |-> FALSE, message |-> "already in database", file |-> file]
    ELSE [success |-> TRUE, message |-> "Successfully added", file |-> file \cup {phone_number}]

HasSpokenBefore(transcript) ==
    \E i \in 1 .. Len(transcript) : transcript[i].speaker = "guardian"

_fallback_guardian_message(analysis, is_first) ==
    LET risk == analysis.risk_score
    IN  IF is_first
        THEN IF risk >= Tenths(80) THEN "Wait - can you give me your employee ID number"
             ELSE IF risk >= Tenths(50) THEN "Hold on - which department are you calling from?"
             ELSE "Can you explain why you need that specific information?"
        ELSE IF risk >= Tenths(80) THEN "What's the routing number for that account?"
        ELSE IF risk >= Tenths(50) THEN "Why can't I handle this through the official website or app?"
        ELSE IF risk >= Tenths(30) THEN "Can I get that request in writing first?"
        ELSE "Let me verify this - what's your department and callback number?"

LlmMessage == "llm message"

\* generate_guardian_message when a client is available: the model's text,
\* or the template when the request fails
generate_guardian_message(transcript, analysis, llm_ok) ==
    IF llm_ok THEN LlmMessage
    ELSE _fallback_guardian_message(analysis, ~HasSpokenBefore(transcript))

AudioUrl == "https://example.com/audio/uuid.mp3"

\* -------------------------------------------------------------- graph nodes
n_init(state, t) ==
    LET s1 == IF state.call_started_at = 0
              THEN _log([state EXCEPT !.call_started_at = t], "init_call")
              ELSE state
    IN  [s1 EXCEPT !.speaker = IF @ = "" THEN "caller" ELSE @,
                   !.last_chunk = strip(@)]

\* mutant: the lookup is made on every run that knows a caller number
NeedsLookup_every_run(state) == state.caller_number # NoNumber

\* n_check_reputation calls check_reputation: a caller number is known and
\* the state has no reputation_check yet
NeedsLookup(state) ==
    state.caller_number # NoNumber /\ ~state.reputation_check.present

n_check_reputation(state, cache) ==
    IF NeedsLookup(state)
    THEN _log([state EXCEPT !.current_tool = "phone_reputation_check",
                            !.current_tool_description = "Checking phone number against scam database",
                            !.reputation_check = check_reputation(state.caller_number, cache.db)],
              "check_reputation")
    ELSE state

\* mutant: the cadence gate always open
n_update_transcript_ungated(state, t) ==
    LET s1 == IF state.last_chunk # ""
              THEN _log([state EXCEPT !.transcript = Append(@, Entry(state.speaker, state.last_chunk))],
                        "update_transcript")
              ELSE state
    IN  [s1 EXCEPT !.should_analyze_now = TRUE]

n_update_transcript(state, t) ==
    LET s1 == IF state.last_chunk # ""
              THEN _log([state EXCEPT !.transcript = Append(@, Entry(state.speaker, state.last_chunk))],
                        "update_transcript")
              ELSE state
    IN  [s1 EXCEPT !.should_analyze_now = (t - state.last_analysis_ts >= ANALYZE_INTERVAL_SECONDS)]

n_analyze(state, analysis_obj, t) ==
    _log([state EXCEPT !.current_tool = "transcript_analysis",
                       !.current_tool_description = "Analyzing conversation for scam indicators",
                       !.analysis = analysis_obj,
                       !.last_analysis_ts = t],
         "analyze_transcript")

\* mutant: hysteresis, a warn decision is kept once made
n_decide_sticky(state) ==
    _log([state EXCEPT !.current_tool = "decision_making",
                       !.current_tool_description = "Evaluating risk and deciding on action",
                       !.decision = IF state.decision.action = "warn"
                                    THEN state.decision
                                    ELSE Decide(state.analysis, state.reputation_check)],
         "decide_action")

n_decide(state) ==
    _log([state EXCEPT !.current_tool = "decision_making",
                       !.current_tool_description = "Evaluating risk and deciding on action",
                       !.decision = Decide(state.analysis, state.reputation_check)],
         "decide_action")

\* mutant: the flag is left as it is until the collaborator has returned
mark_scam_processed_late(state) == state

\* n_process_scam between its guard and the call of add_scam_to_database:
\* state["scam_processed"] = True
mark_scam_processed(state) == [state EXCEPT !.scam_processed = TRUE]

\* mutant: the guard flag is never set
n_process_scam_unguarded(state, result) ==
    IF state.scam_processed
    THEN _log(state, "process_scam")
    ELSE _log([state EXCEPT !.scam_report_result = result.message], "process_scam")

\* n_process_scam, given the outcome of add_scam_to_database
n_process_scam(state, result) ==
    IF state.scam_processed
    THEN _log(state, "process_scam")
    ELSE _log([state EXCEPT !.scam_processed = TRUE,
                            !.scam_report_result = result.message],
              "process_scam")

n_generate_utterance(state, text) ==
    IF state.decision.action \in {"", "observe"}
    THEN _log([state EXCEPT !.guardian_utterance_text = ""], "generate_utterance")
    ELSE _log([state EXCEPT !.current_tool = "speech_generation",
                            !.current_tool_description = "Generating Guardian intervention message",
                            !.guardian_utterance_text = text,
                            !.transcript = Append(@, Entry("guardian", text))],
              "generate_utterance")

n_tts(state) ==
    IF state.guardian_utterance_text = ""
    THEN [state EXCEPT !.guardian_utterance_audio_url = ""]
    ELSE _log([state EXCEPT !.guardian_utterance_audio_url = AudioUrl], "tts")

\* mutant: the summary is logged and the tool indicator left as it is
n_finalize_log_only(state) == _log(state, "finalize_step")

n_finalize(state) ==
    [_log(state, "finalize_step") EXCEPT !.current_tool = "", !.current_tool_description = ""]

\* mutant: every run analyses
branch_after_update_always(state) == "analyze"

branch_after_update(state) ==
    IF state.should_analyze_now THEN "analyze" ELSE "finalize"

\* mutant: a warn goes to the utterance like a question does
branch_after_decide_no_scam_step(state) ==
    LET action == IF state.decision.action = "" THEN "observe" ELSE state.decision.action
    IN  IF action = "observe" THEN "finalize" ELSE "generate_utterance"

branch_after_decide(state) ==
    LET action == IF state.decision.action = "" THEN "observe" ELSE state.decision.action
    IN  IF action = "observe" THEN "finalize"
        ELSE IF action = "warn" THEN "process_scam"
        ELSE "generate_utterance"


\* ------------------------------------------------------------------- state
\* the decision the timer stores before each run
DefaultDecision == [action |-> "observe", reason |-> <<"No analysis yet", 0, 0, 0>>, risk_score |-> 0]

\* shared_state once the entrypoint has initialised the call
InitialShared(caller) ==
    [transcript |-> << >>, analysis |-> NoAnalysis, decision |-> NoDecision,
     risk_score |-> 0, caller_number |-> caller, user_number |-> UserNumber,
     call_sid |-> "CA1"]

\* shared_state as the module defines it
ModuleShared == [InitialShared(NoNumber) EXCEPT !.user_number = NoNumber, !.call_sid = ""]

\* no pass of identify_speakers yet
NoPass == [n |-> 0, after |-> 0, input |-> << >>, raised |-> FALSE, labels |-> << >>]

\* nothing is being written or read, no speaker identification is under way
\* the participants the entrypoint collects: telephony_agent.py waits for
\* the caller, the FIXED entrypoint for a second participant as well, up to
\* five seconds
Participants(prog) ==
    IF prog = "telephony_agent_FIXED" THEN {{"caller"}, {"caller", "user"}}
    ELSE IF prog = "telephony_agent" THEN {{"caller"}}
    ELSE {{}}

InitEntrypoint ==
    /\ file_pc = "closed"
    /\ prev_snapshot = snapshot
    /\ flask_view = ModuleShared
    /\ reader_pc = "idle"
    /\ ident_pending = 0
    /\ ident_running = << >>
    /\ resolved = {}
    /\ last_pass = NoPass
    /\ participants \in Participants(program)
    /\ connected = IF program = "app" THEN {} ELSE {"caller", "user"}
    /\ hangup_pending = 0

\* a process that has constructed its GuardianAgent
InitAgent ==
    /\ now = StartTime
    /\ ckpt = [c \in Calls |-> EmptyState]
    /\ pc = [t \in Threads |-> "idle"]
    /\ st = [t \in Threads |-> EmptyState]
    /\ nruns = 0
    /\ scam_file = {ScamNumber}
    /\ scam_cache = [loaded |-> FALSE, db |-> {}]
    /\ api_key \in BOOLEAN
    /\ add_calls = [c \in Calls |-> 0]
    /\ analyze_calls = [c \in Calls |-> 0]
    /\ last_analyze_at = [c \in Calls |-> 0]
    /\ last_analyzed = << >>
    /\ last_response = NoResponse
    /\ captured = << >>
    /\ submitted = << >>
    /\ rep_calls = [c \in Calls |-> 0]
    /\ sms_calls = [c \in Calls |-> 0]
    /\ flag_at_add = [c \in Calls |-> "no call"]

\* the backend process (app.py): no telephony entrypoint runs in it and
\* shared_state is as the module defines it
Init ==
    /\ InitAgent
    /\ program = "app"
    /\ shared = ModuleShared
    /\ snapshot = shared
    /\ timer_pc = "stopped"
    /\ InitEntrypoint

\* a telephony process whose entrypoint has initialised the call
InitTelephony ==
    /\ InitAgent
    /\ program \in {"telephony_agent", "telephony_agent_FIXED"}
    /\ \E caller \in {ScamNumber, CleanNumber} :
         /\ shared = InitialShared(caller)
         /\ snapshot = InitialShared(caller)
    /\ timer_pc = "sleep"
    /\ InitEntrypoint

\* a node returned new_state: LangGraph checkpoints it under the thread_id
Commit(t, new_state, next) ==
    /\ st' = [st EXCEPT ![t] = new_state]
    /\ ckpt' = [ckpt EXCEPT ![new_state.call_sid] = new_state]
    /\ pc' = [pc EXCEPT ![t] = next]

\* mutant: the input also resets the guard flag
process_chunk_reset(t, call_sid, user_number, caller_number, text, speaker) ==
    /\ pc[t] = "idle"
    /\ nruns < MaxRuns
    /\ nruns' = nruns + 1
    /\ Commit(t, [ckpt[call_sid] EXCEPT !.call_sid = call_sid,
                                        !.user_number = user_number,
                                        !.caller_number = caller_number,
                                        !.last_chunk = text,
                                        !.speaker = speaker,
                                        !.scam_processed = FALSE], "init")

\* process_chunk: graph.invoke(initial) overwrites the five input keys of the
\* checkpointed state of the thread_id and enters the graph at init
process_chunk(t, call_sid, user_number, caller_number, text, speaker) ==
    /\ pc[t] = "idle"
    /\ nruns < MaxRuns
    /\ nruns' = nruns + 1
    /\ Commit(t, [ckpt[call_sid] EXCEPT !.call_sid = call_sid,
                                        !.user_number = user_number,
                                        !.caller_number = caller_number,
                                        !.last_chunk = text,
                                        !.speaker = speaker], "init")

NodeInit(t) ==
    /\ pc[t] = "init"
    /\ Commit(t, n_init(st[t], now), "check_reputation")
    /\ UNCHANGED <<now, nruns, files, config, telephony, calls_made>>

NodeCheckReputation(t) ==
    /\ pc[t] = "check_reputation"
    /\ LET lookup == NeedsLookup(st[t])
           cache == IF lookup THEN _load_scam_database(scam_cache, scam_file) ELSE scam_cache
       IN  /\ scam_cache' = cache
           /\ rep_calls' = IF lookup THEN [rep_calls EXCEPT ![st[t].call_sid] = @ + 1] ELSE rep_calls
           /\ Commit(t, n_check_reputation(st[t], cache), "update_transcript")
    /\ UNCHANGED <<now, nruns, scam_file, config, telephony,
                   add_calls, analyze_calls, last_analyze_at, last_analyzed, last_response,
                   submitted, sms_calls, flag_at_add>>

NodeUpdateTranscript(t) ==
    /\ pc[t] = "update_transcript"
    /\ LET s2 == n_update_transcript(st[t], now)
       IN  Commit(t, s2, branch_after_update(s2))
    /\ UNCHANGED <<now, nruns, files, config, telephony, calls_made>>

\* the analyze node, the classifier answering with one of responses; no
\* request is made for an empty transcript or without a client
analyze_with(t, responses) ==
    /\ pc[t] = "analyze"
    /\ \E response \in IF st[t].transcript = << >> THEN {NoResponse}
                       ELSE IF ~api_key THEN {NoClient} ELSE responses :
         /\ Commit(t, n_analyze(st[t], analyze_transcript(st[t].transcript, api_key, response), now),
                   "decide")
         /\ last_response' = response
    /\ analyze_calls' = [analyze_calls EXCEPT ![st[t].call_sid] = @ + 1]
    /\ last_analyze_at' = [last_analyze_at EXCEPT ![st[t].call_sid] = now]
    /\ last_analyzed' = st[t].transcript
    /\ UNCHANGED <<now, nruns, files, config, telephony, add_calls, submitted, rep_calls, sms_calls, flag_at_add>>

NodeAnalyze(t) == analyze_with(t, LlmOutcomes)

NodeDecide(t) ==
    /\ pc[t] = "decide"
    /\ LET s2 == n_decide(st[t])
       IN  Commit(t, s2, branch_after_decide(s2))
    /\ UNCHANGED <<now, nruns, files, config, telephony, calls_made>>

NodeProcessScam(t) ==
    /\ pc[t] = "process_scam"
    /\ IF st[t].scam_processed
       THEN /\ Commit(t, n_process_scam(st[t], [message |-> ""]), "generate_utterance")
            /\ UNCHANGED <<scam_file, add_calls, flag_at_add>>
       ELSE \E io_ok \in BOOLEAN :
              LET entered == mark_scam_processed(st[t])
                  result == add_scam_to_database(entered.caller_number, scam_file, io_ok)
              IN  /\ scam_file' = result.file
                  /\ add_calls' = [add_calls EXCEPT ![st[t].call_sid] = @ + 1]
                  /\ flag_at_add' = [flag_at_add EXCEPT ![st[t].call_sid] =
                                        IF entered.scam_processed THEN "set" ELSE "unset"]
                  /\ Commit(t, n_process_scam(st[t], result), "generate_utterance")
    /\ UNCHANGED <<now, nruns, scam_cache, config, telephony,
                   analyze_calls, last_analyze_at, last_analyzed, last_response,
                   submitted, rep_calls, sms_calls>>

\* generate_guardian_message reads is_first_intervention in its except
\* branch; without an API key that name is still unbound and the node raises
NodeGenerateUtterance(t) ==
    /\ pc[t] = "generate_utterance"
    /\ IF st[t].decision.action \notin {"", "observe"} /\ ~api_key
       THEN /\ pc' = [pc EXCEPT ![t] = "raised"]
            /\ UNCHANGED <<st, ckpt>>
       ELSE \E llm_ok \in BOOLEAN :
              Commit(t, n_generate_utterance(st[t],
                          generate_guardian_message(st[t].transcript, st[t].analysis, llm_ok)), "tts")
    /\ UNCHANGED <<now, nruns, files, config, telephony, calls_made>>

NodeTts(t) ==
    /\ pc[t] = "tts"
    /\ Commit(t, n_tts(st[t]), "finalize")
    /\ UNCHANGED <<now, nruns, files, config, telephony, calls_made>>

NodeFinalize(t) ==
    /\ pc[t] = "finalize"
    /\ Commit(t, n_finalize(st[t]), "done")
    /\ UNCHANGED <<now, nruns, files, config, telephony, calls_made>>

Node(t) ==
    \/ NodeInit(t)
    \/ NodeCheckReputation(t)
    \/ NodeUpdateTranscript(t)
    \/ NodeAnalyze(t)
    \/ NodeDecide(t)
    \/ NodeProcessScam(t)
    \/ NodeGenerateUtterance(t)
    \/ NodeTts(t)
    \/ NodeFinalize(t)

\* ---------------------------------------------------------- request handler
\* the request bodies explored: text, speaker and caller_number
RequestBodies ==
    {<<"f1", "caller", ScamNumber>>, <<"f2", "user", CleanNumber>>, <<Blank, "", NoNumber>>}

\* seconds between one request and the next
Gaps == {5, ANALYZE_INTERVAL_SECONDS}

\* handle_transcript: a request thread takes a POST and runs process_chunk
handle_transcript(t, bodies, gaps) ==
    /\ \E c \in Calls, body \in bodies :
         /\ process_chunk(t, c, UserNumber, body[3], body[1], body[2])
         /\ submitted' = IF strip(body[1]) = "" THEN submitted ELSE Append(submitted, body[1])
    /\ \E gap \in gaps : now' = now + gap
    /\ UNCHANGED <<files, config, telephony, add_calls, analyze_calls, last_analyze_at, last_analyzed,
                   last_response, rep_calls, sms_calls, flag_at_add>>

\* the handler returns its response (or the server's error response)
Respond(t) ==
    /\ pc[t] \in {"done", "raised"}
    /\ pc' = [pc EXCEPT ![t] = "idle"]
    /\ UNCHANGED <<now, ckpt, st, nruns, files, config, telephony, calls_made>>

\* a caller that invokes process_chunk in a loop, one call after the other
SequentialCall ==
    /\ \A u \in Threads : pc[u] = "idle"
    /\ handle_transcript(1, RequestBodies, Gaps)

Next ==
    \/ SequentialCall
    \/ Node(1)
    \/ Respond(1)

\* process_chunk called again only after the previous call returned
Spec == Init /\ [][Next]_vars

\* the requests explored in parallel
ParallelBodies == {<<"f1", "caller", ScamNumber>>, <<"f2", "user", CleanNumber>>}

\* the Flask server: every request thread runs handle_transcript on its own
NextFlask ==
    \/ \E t \in Threads : nruns < MaxParallel /\ handle_transcript(t, ParallelBodies, {5})
    \/ \E t \in Threads : Node(t)
    \/ \E t \in Threads : Respond(t)

SpecFlask == Init /\ [][NextFlask]_vars

\* ---------------------------------------------------------------- telephony
\* get_current_state: what the voice agent reads before it speaks, given
\* shared_state["decision"]
get_current_state(decision) ==
    [action |-> IF decision.action = "" THEN "observe" ELSE decision.action,
     reason |-> IF decision.action = "" THEN <<"No analysis yet", 0, 0, 0>> ELSE decision.reason,
     risk_score |-> decision.risk_score]

\* save_shared_state: the file is opened for writing, which truncates it, and
\* the whole dictionary is dumped into it; until the file is closed it holds
\* a part of the new text
save_shared_state(new_shared) ==
    /\ snapshot' = new_shared
    /\ prev_snapshot' = snapshot
    /\ file_pc' = "writing"

\* the dump is complete and the file closed
SaveClose ==
    /\ file_pc = "writing"
    /\ file_pc' = "closed"
    /\ UNCHANGED <<now, nruns, pipeline, files, config, shared, snapshot, timer_pc, captured,
                   prev_snapshot, flask_view, reader_pc, speakers, hangup, calls_made>>

\* the event loop of the telephony process is free to run a handler or a task
EventLoopFree == timer_pc # "running" /\ file_pc = "closed"

\* guardian_pipeline_timer, one iteration up to the call of process_chunk:
\* sleep, skip while nothing was captured, reset the decision, run the graph.
\* process_chunk is synchronous: the event loop runs nothing else until
\* the timer has handled its result.
TimerWake ==
    /\ timer_pc = "sleep"
    /\ file_pc = "closed"
    /\ now + TimerPeriod <= MaxTime
    /\ now' = now + TimerPeriod
    /\ IF shared.transcript = << >>
       THEN UNCHANGED <<nruns, pipeline, shared, timer_pc>>
       ELSE /\ shared' = [shared EXCEPT !.decision = DefaultDecision]
            /\ process_chunk(1, shared.call_sid, shared.user_number, shared.caller_number, "", "system")
            /\ timer_pc' = "running"
    /\ UNCHANGED <<files, config, snapshot, captured, export, speakers, hangup, calls_made>>

\* the rest of the iteration in telephony_agent_FIXED.py and sim_agent.py:
\* copy the result into shared_state and save it
WriteBack(result) ==
    LET s1 == [shared EXCEPT !.analysis = result.analysis,
                             !.decision = result.decision,
                             !.risk_score = result.decision.risk_score]
    IN  IF result.transcript # << >>
        THEN [s1 EXCEPT !.transcript = result.transcript]
        ELSE s1

TimerDone ==
    /\ timer_pc = "running"
    /\ pc[1] = "done"
    /\ IF program = "telephony_agent_FIXED"
       THEN /\ shared' = WriteBack(st[1])
            /\ save_shared_state(shared')
            /\ resolved' = IF st[1].transcript # << >> THEN {} ELSE resolved
       ELSE UNCHANGED <<shared, snapshot, prev_snapshot, file_pc, resolved>>
    /\ pc' = [pc EXCEPT ![1] = "idle"]
    /\ timer_pc' = "sleep"
    /\ UNCHANGED <<now, nruns, ckpt, st, files, config, captured, flask_view, reader_pc,
                   ident_pending, ident_running, last_pass, hangup, calls_made>>

\* process_chunk raised: the except clause around the loop logs and the
\* coroutine returns
TimerRaised ==
    /\ timer_pc = "running"
    /\ pc[1] = "raised"
    /\ pc' = [pc EXCEPT ![1] = "idle"]
    /\ timer_pc' = "stopped"
    /\ UNCHANGED <<now, nruns, ckpt, st, files, config, shared, snapshot, captured,
                   export, speakers, hangup, calls_made>>

\* _on_participant_disconnected: a participant leaves the room; for one of
\* the participants the entrypoint waited for, an on_call_hangup task is
\* created (and ctx.shutdown requested)
_on_participant_disconnected ==
    /\ EventLoopFree
    /\ \E p \in connected :
         /\ connected' = connected \ {p}
         /\ hangup_pending' = IF p \in participants THEN hangup_pending + 1 ELSE hangup_pending
    /\ UNCHANGED <<now, nruns, pipeline, files, config, shared, snapshot, timer_pc, captured,
                   export, speakers, participants, calls_made>>

\* mutant: the task is cancelled whatever it is doing
on_call_hangup_abrupt ==
    /\ file_pc = "closed"
    /\ hangup_pending > 0
    /\ hangup_pending' = hangup_pending - 1
    /\ timer_pc' = IF timer_pc \in {"sleep", "running"} THEN "cancelled" ELSE timer_pc
    /\ sms_calls' = IF shared.decision.action = "warn"
                    THEN [sms_calls EXCEPT ![shared.call_sid] = @ + 1]
                    ELSE sms_calls
    /\ UNCHANGED <<now, nruns, pipeline, files, config, shared, snapshot, captured,
                   export, speakers, participants, connected,
                   add_calls, analyze_calls, last_analyze_at, last_analyzed, last_response,
                   submitted, rep_calls, flag_at_add>>

\* on_call_hangup: the timer task, suspended in its sleep, is cancelled
\* unless it is done already; then the family is alerted when the decision
\* in shared_state is warn
on_call_hangup ==
    /\ EventLoopFree
    /\ hangup_pending > 0
    /\ hangup_pending' = hangup_pending - 1
    /\ timer_pc' = IF timer_pc = "sleep" THEN "cancelled" ELSE timer_pc
    /\ sms_calls' = IF shared.decision.action = "warn"
                    THEN [sms_calls EXCEPT ![shared.call_sid] = @ + 1]
                    ELSE sms_calls
    /\ UNCHANGED <<now, nruns, pipeline, files, config, shared, snapshot, captured,
                   export, speakers, participants, connected,
                   add_calls, analyze_calls, last_analyze_at, last_analyzed, last_response,
                   submitted, rep_calls, flag_at_add>>

\* the handlers append chunk to the transcript. telephony_agent.py appends in
\* the handler and never saves; the FIXED entrypoint goes through
\* _add_transcript, which saves and, for a chunk of speaker "user", creates
\* an _identify_speaker_async task.
AppendChunk(chunk) ==
    /\ EventLoopFree
    /\ Len(captured) < MaxChunks
    /\ captured' = Append(captured, chunk)
    /\ shared' = [shared EXCEPT !.transcript = Append(@, chunk)]
    /\ IF program = "telephony_agent_FIXED"
       THEN /\ save_shared_state(shared')
            /\ ident_pending' = IF chunk.speaker = "user" THEN ident_pending + 1 ELSE ident_pending
       ELSE UNCHANGED <<snapshot, prev_snapshot, file_pc, ident_pending>>
    /\ UNCHANGED <<now, nruns, pipeline, files, config, timer_pc, flask_view, reader_pc,
                   ident_running, resolved, last_pass, hangup, calls_made>>

\* _on_user_input: a final transcription of human speech
OnUserInput ==
    \E text \in Fragments :
        AppendChunk(IF program = "telephony_agent_FIXED"
                    THEN Chunk("user", "", text, now)
                    ELSE Chunk("", "user", text, now))

\* _on_conversation_item for an assistant message
OnAssistantItem ==
    \E text \in {LlmMessage} :
        AppendChunk(IF program = "telephony_agent_FIXED"
                    THEN Chunk("agent", "", text, now)
                    ELSE Chunk("", "assistant", text, now))

\* the texts of the human entries among the last five of the transcript
recent_texts(transcript) ==
    {transcript[i].text : i \in {j \in 1 .. Len(transcript) :
                                    /\ j > Len(transcript) - 5
                                    /\ transcript[j].speaker \in {"caller", "user", "pottential_scammer"}}}

\* _on_conversation_item for a user message: the FIXED entrypoint adds it
\* unless its text is among the recent ones, telephony_agent.py always
OnUserItem ==
    \E text \in Fragments :
        IF program = "telephony_agent_FIXED"
        THEN /\ text \notin recent_texts(shared.transcript)
             /\ AppendChunk(Chunk("user", "", text, now))
        ELSE AppendChunk(Chunk("", "user", text, now))

\* ------------------------------------------------------ speaker resolution
\* the speaker of an entry, from its "speaker" or else its "role" field, with
\* assistant renamed to agent
NormalSpeaker(entry) ==
    LET speaker == IF entry.speaker # "" THEN entry.speaker
                   ELSE IF entry.role # "" THEN entry.role ELSE "unknown"
    IN  IF speaker = "assistant" THEN "agent" ELSE speaker

\* mutant: the entries of the voice agent are left out
normalized_transcript_humans(transcript) ==
    LET all == [i \in 1 .. Len(transcript) |->
                  Chunk(NormalSpeaker(transcript[i]), "", transcript[i].text, transcript[i].timestamp)]
        IsHumanEntry(e) == e.speaker # "agent"
    IN  SelectSeq(all, IsHumanEntry)

\* identify_speakers, first pass: every entry rebuilt with a "speaker" field
normalized_transcript(transcript) ==
    [i \in 1 .. Len(transcript) |->
        Chunk(NormalSpeaker(transcript[i]), "", transcript[i].text, transcript[i].timestamp)]

\* the indices of the entries labelled "user", in order
needs_identification(normalized) ==
    LET IsUser(i) == normalized[i].speaker = "user"
    IN  SelectSeq([i \in 1 .. Len(normalized) |-> i], IsUser)

allowed == {"user", "pottential_scammer"}

\* the labels a classifier answer is made of; "caller" is none of the allowed
SpeakerLabels == {"user", "pottential_scammer", "caller"}

\* what _identify_speakers_with_llm can do for n requested entries: raise
\* (no client, failed request, malformed JSON) or return a list of labels,
\* here of n - 1, n or n + 1 labels (the label past the n-th is paired with
\* no entry, one value stands for it)
ClassifierAnswers(n) ==
    LET lists(k) == [1 .. k -> SpeakerLabels]
    IN  {[raised |-> TRUE, labels |-> << >>]} \cup
        {[raised |-> FALSE, labels |-> l] : l \in lists(n - 1) \cup lists(n)} \cup
        {[raised |-> FALSE, labels |-> Append(l, "user")] : l \in lists(n)}

\* the positions of the answer that zip(needs_identification, labels) pairs
\* with an entry and whose label is allowed
Applied(needs, labels) ==
    {k \in 1 .. Min(Len(needs), Len(labels)) : labels[k] \in allowed}

identify_speakers(transcript, answer) ==
    IF transcript = << >> THEN transcript
    ELSE LET normalized == normalized_transcript(transcript)
             needs == needs_identification(normalized)
         IN  IF needs = << >> \/ answer.raised THEN normalized
             ELSE [i \in 1 .. Len(normalized) |->
                     IF \E k \in Applied(needs, answer.labels) : needs[k] = i
                     THEN [normalized[i] EXCEPT !.speaker =
                             answer.labels[CHOOSE k \in Applied(needs, answer.labels) : needs[k] = i]]
                     ELSE normalized[i]]

\* _identify_speaker_async starts: identify_speakers goes to the executor
\* with the transcript as it is now
IdentifyStart ==
    /\ EventLoopFree
    /\ ident_pending > 0
    /\ last_pass.n + Len(ident_running) < MaxPasses
    /\ ident_pending' = ident_pending - 1
    /\ ident_running' = Append(ident_running, [input |-> shared.transcript, after |-> last_pass.n])
    /\ UNCHANGED <<now, nruns, pipeline, files, config, shared, snapshot, timer_pc, captured,
                   export, resolved, last_pass, hangup, calls_made>>

\* the answers the classifier can give to a pass over this transcript
AnswersFor(transcript) ==
    LET needs == needs_identification(normalized_transcript(transcript))
    IN  IF needs = << >> THEN {[raised |-> FALSE, labels |-> << >>]}
        ELSE IF ~api_key THEN {[raised |-> TRUE, labels |-> << >>]}
        ELSE ClassifierAnswers(Len(needs))

\* a pass of identify_speakers returns: its result replaces
\* shared_state["transcript"] and is saved
IdentifyFinish ==
    /\ EventLoopFree
    /\ \E k \in 1 .. Len(ident_running) :
         \E answer \in AnswersFor(ident_running[k].input) :
            LET input == ident_running[k].input
                needs == needs_identification(normalized_transcript(input))
                result == identify_speakers(input, answer)
            IN  /\ shared' = [shared EXCEPT !.transcript = result]
                /\ save_shared_state(shared')
                /\ ident_running' = SubSeq(ident_running, 1, k - 1) \o
                                    SubSeq(ident_running, k + 1, Len(ident_running))
                /\ resolved' = {i \in resolved : i <= Len(result)} \cup
                               (IF answer.raised THEN {}
                                ELSE {needs[j] : j \in Applied(needs, answer.labels)})
                /\ last_pass' = [n |-> last_pass.n + 1, after |-> ident_running[k].after,
                                 input |-> input,
                                 raised |-> answer.raised, labels |-> answer.labels]
    /\ UNCHANGED <<now, nruns, pipeline, files, config, timer_pc, captured,
                   flask_view, reader_pc, ident_pending, hangup, calls_made>>

\* ------------------------------------------------------- the snapshot reader
\* get_shared_state in the backend process (GET /calls/state): _load_from_disk
\* updates shared_state with the file when the file parses, and leaves it as
\* it is when json.load raises on a partly written file
get_shared_state ==
    /\ reader_pc = "idle"
    /\ reader_pc' = "loaded"
    /\ flask_view' = IF file_pc = "closed" THEN snapshot ELSE flask_view
    /\ UNCHANGED <<now, nruns, pipeline, files, config, shared, snapshot, timer_pc, captured,
                   file_pc, prev_snapshot, speakers, hangup, calls_made>>

\* get_call_state returns its response
get_call_state ==
    /\ reader_pc = "loaded"
    /\ reader_pc' = "idle"
    /\ UNCHANGED <<now, nruns, pipeline, files, config, shared, snapshot, timer_pc, captured,
                   file_pc, prev_snapshot, flask_view, speakers, hangup, calls_made>>

\* the telephony process: the timer and the handlers on one event loop
NextTelephony ==
    \/ TimerWake
    \/ Node(1)
    \/ TimerDone
    \/ TimerRaised
    \/ OnUserInput
    \/ OnAssistantItem
    \/ OnUserItem
    \/ SaveClose

SpecTelephony == InitTelephony /\ [][NextTelephony]_vars

\* the handlers of the entrypoint and the speaker identification tasks they
\* create
NextEntrypoint ==
    \/ OnUserInput
    \/ OnAssistantItem
    \/ OnUserItem
    \/ SaveClose
    \/ IdentifyStart
    \/ IdentifyFinish

SpecEntrypoint == InitTelephony /\ [][NextEntrypoint]_vars

\* the telephony process until the call is hung up
NextHangup ==
    \/ TimerWake
    \/ Node(1)
    \/ TimerDone
    \/ TimerRaised
    \/ OnUserInput
    \/ OnAssistantItem
    \/ OnUserItem
    \/ SaveClose
    \/ _on_participant_disconnected
    \/ on_call_hangup

SpecHangup == InitTelephony /\ [][NextHangup]_vars

\* entrypoint for the next call in the same process, in the same room once
\* the previous call is over: the call's keys of shared_state are set (the
\* FIXED entrypoint also empties the transcripts and saves), decision,
\* analysis and risk_score are left as they are, and a new timer task starts
entrypoint ==
    /\ EventLoopFree
    /\ timer_pc \in {"cancelled", "stopped"}
    /\ hangup_pending = 0
    /\ connected # {"caller", "user"}
    /\ \A t \in Threads : pc[t] = "idle"
    /\ now + CallGap <= MaxTime
    /\ now' = now + CallGap
    /\ \E caller \in {ScamNumber, CleanNumber} :
         shared' = [shared EXCEPT !.transcript = IF program = "telephony_agent_FIXED" THEN << >> ELSE @,
                                  !.caller_number = caller,
                                  !.user_number = UserNumber,
                                  !.call_sid = "CA1"]
    /\ IF program = "telephony_agent_FIXED"
       THEN /\ save_shared_state(shared')
            /\ resolved' = {}
       ELSE UNCHANGED <<snapshot, prev_snapshot, file_pc, resolved>>
    /\ participants' \in Participants(program)
    /\ connected' = {"caller", "user"}
    /\ timer_pc' = "sleep"
    /\ UNCHANGED <<nruns, pipeline, files, config, captured, flask_view, reader_pc,
                   ident_pending, ident_running, last_pass, hangup_pending, calls_made>>

\* a telephony process that takes a call after another
NextCalls ==
    \/ TimerWake
    \/ Node(1)
    \/ TimerDone
    \/ TimerRaised
    \/ OnUserInput
    \/ OnAssistantItem
    \/ OnUserItem
    \/ SaveClose
    \/ _on_participant_disconnected
    \/ on_call_hangup
    \/ entrypoint

SpecCalls == InitTelephony /\ [][NextCalls]_vars

\* the telephony process saving shared_state.json while the backend process
\* serves GET /calls/state from it
NextSnapshot ==
    \/ TimerWake
    \/ Node(1)
    \/ TimerDone
    \/ TimerRaised
    \/ OnUserInput
    \/ OnAssistantItem
    \/ OnUserItem
    \/ SaveClose
    \/ get_shared_state
    \/ get_call_state

SpecSnapshot == InitTelephony /\ [][NextSnapshot]_vars

\* --------------------------------------------------------- the decision step
\* every score from 0.0 to 100.0 in steps of 0.1
DecideScores == 0 .. 1000
DecideReps ==
    {NoRep, check_reputation(ScamNumber, LoadedDb({ScamNumber})),
     check_reputation(ScamNumberLocal, LoadedDb({ScamNumber})),
     check_reputation(CleanNumber, LoadedDb({ScamNumber}))}
PrevDecisions == {NoDecision, Decide([risk_score |-> 800], NoRep)}

\* a run that has just analysed and is about to decide
AboutToDecide(score, rep, prev) ==
    [EmptyState EXCEPT !.call_sid = "CA1", !.call_started_at = StartTime,
                       !.user_number = UserNumber, !.speaker = "caller",
                       !.should_analyze_now = TRUE, !.last_analysis_ts = StartTime,
                       !.analysis = [present |-> TRUE, risk_score |-> score,
                                     confidence |-> 90, model |-> "llm"],
                       !.reputation_check = rep, !.decision = prev,
                       !.activity = <<"init_call", "analyze_transcript">>,
                       !.current_tool = "transcript_analysis",
                       !.current_tool_description = "Analyzing conversation for scam indicators"]

InitDecide ==
    /\ now = StartTime
    /\ nruns = 1
    /\ scam_file = {ScamNumber}
    /\ scam_cache = [loaded |-> TRUE, db |-> LoadedDb({ScamNumber})]
    /\ api_key \in BOOLEAN
    /\ program = "app"
    /\ shared = ModuleShared
    /\ snapshot = shared
    /\ timer_pc = "stopped"
    /\ InitEntrypoint
    /\ add_calls = [c \in Calls |-> 0]
    /\ analyze_calls = [c \in Calls |-> 1]
    /\ last_analyze_at = [c \in Calls |-> StartTime]
    /\ last_analyzed = << >>
    /\ last_response = NoResponse
    /\ captured = << >>
    /\ submitted = << >>
    /\ sms_calls = [c \in Calls |-> 0]
    /\ flag_at_add = [c \in Calls |-> "no call"]
    /\ pc = [t \in Threads |-> IF t = 1 THEN "decide" ELSE "idle"]
    /\ \E score \in DecideScores, rep \in DecideReps, prev \in PrevDecisions :
         /\ st = [t \in Threads |-> IF t = 1 THEN AboutToDecide(score, rep, prev) ELSE EmptyState]
         /\ ckpt = [c \in Calls |-> AboutToDecide(score, rep, prev)]
         /\ rep_calls = [c \in Calls |-> IF rep.present THEN 1 ELSE 0]

NextDecide ==
    \/ NodeDecide(1)
    \/ NodeProcessScam(1)
    \/ NodeGenerateUtterance(1)
    \/ NodeTts(1)
    \/ NodeFinalize(1)
    \/ Respond(1)

\* the decision step and what follows it, on every pair of signals
SpecDecide == InitDecide /\ [][NextDecide]_vars

\* the transcripts analyze_transcript is applied to
AnalyzeTranscripts ==
    {<< >>, <<Entry("caller", "f1")>>, <<Entry("caller", "f2")>>,
     <<Entry("caller", "f1"), Entry("user", "f2")>>}

\* a run that has updated the transcript and is about to analyse it
AboutToAnalyze(transcript) ==
    [EmptyState EXCEPT !.call_sid = "CA1", !.call_started_at = StartTime,
                       !.user_number = UserNumber, !.caller_number = CleanNumber,
                       !.speaker = "caller", !.transcript = transcript,
                       !.should_analyze_now = TRUE,
                       !.reputation_check = check_reputation(CleanNumber, LoadedDb({ScamNumber})),
                       !.activity = <<"init_call", "check_reputation">>,
                       !.current_tool = "phone_reputation_check",
                       !.current_tool_description = "Checking phone number against scam database"]

InitAnalyze ==
    /\ now = StartTime
    /\ nruns = 1
    /\ scam_file = {ScamNumber}
    /\ scam_cache = [loaded |-> TRUE, db |-> LoadedDb({ScamNumber})]
    /\ api_key \in BOOLEAN
    /\ program = "app"
    /\ shared = ModuleShared
    /\ snapshot = shared
    /\ timer_pc = "stopped"
    /\ InitEntrypoint
    /\ add_calls = [c \in Calls |-> 0]
    /\ analyze_calls = [c \in Calls |-> 0]
    /\ last_analyze_at = [c \in Calls |-> 0]
    /\ last_analyzed = << >>
    /\ last_response = NoResponse
    /\ captured = << >>
    /\ submitted = << >>
    /\ sms_calls = [c \in Calls |-> 0]
    /\ flag_at_add = [c \in Calls |-> "no call"]
    /\ rep_calls = [c \in Calls |-> 1]
    /\ pc = [t \in Threads |-> IF t = 1 THEN "analyze" ELSE "idle"]
    /\ \E transcript \in AnalyzeTranscripts :
         /\ st = [t \in Threads |-> IF t = 1 THEN AboutToAnalyze(transcript) ELSE EmptyState]
         /\ ckpt = [c \in Calls |-> AboutToAnalyze(transcript)]

NextAnalyze ==
    \/ analyze_with(1, Responses)
    \/ NodeDecide(1)
    \/ NodeProcessScam(1)
    \/ NodeGenerateUtterance(1)
    \/ NodeTts(1)
    \/ NodeFinalize(1)
    \/ Respond(1)

\* the analysis step on every answer of the classifier, and what follows it
SpecAnalyze == InitAnalyze /\ [][NextAnalyze]_vars

\* ==================================================================== claims
\* the two signals of a run, a missing one counting as 0
Larger(a, b) == IF a < b THEN b ELSE a
SignalsOf(state) == <<state.reputation_check.risk_score, state.analysis.risk_score>>

\* C7: for every pair of reputation and transcript risk scores, with risk the
\* larger of the two, the decision step sets action to warn when risk >= 80,
\* to question when 40 <= risk < 80 and to observe when risk < 40 (scores in
\* tenths: 800 and 400), the boundary values included.
C7_Thresholds ==
    pc[1] \notin {"idle", "decide"} =>
        LET risk == Larger(SignalsOf(st[1])[1], SignalsOf(st[1])[2])
            action == st[1].decision.action
        IN  /\ risk >= 800 => action = "warn"
            /\ (400 <= risk /\ risk < 800) => action = "question"
            /\ risk < 400 => action = "observe"

\* C7 witness: a run decided question at risk 79.9, the largest score below
\* the warn threshold
C7_Witness ==
    /\ pc[1] = "done"
    /\ st[1].analysis.risk_score = 799
    /\ st[1].reputation_check.risk_score = 100
    /\ st[1].decision.action = "question"


\* a step of thread 1 out of the given node
Leaves(node) == pc[1] = node /\ pc'[1] # node

\* C8: every decision written by the decision step has risk_score equal to
\* the larger of the reputation and the analysis score (a missing one counts
\* as 0) and an action fixed by that value alone, whatever the previous
\* decision was; a run that analyses goes on to the decision step.
C8_DecisionRecomputed ==
    [][/\ Leaves("analyze") => pc'[1] = "decide"
       /\ Leaves("decide") =>
            LET d == ckpt'["CA1"].decision
                risk == Larger(SignalsOf(st[1])[1], SignalsOf(st[1])[2])
            IN  /\ d.risk_score = risk
                /\ d.action = "warn" <=> risk >= 800
                /\ d.action = "question" <=> (400 <= risk /\ risk < 800)
                /\ d.action = "observe" <=> risk < 400]_vars

\* C8 witness: a call whose scam was processed (it was at warn) is back at
\* observe after a later run
C8_Witness ==
    /\ pc[1] = "done"
    /\ ckpt["CA1"].scam_processed
    /\ ckpt["CA1"].decision.action = "observe"

\* how often a stage was logged for the call
Logged(c, stage) ==
    Cardinality({i \in 1 .. Len(ckpt[c].activity) : ckpt[c].activity[i] = stage})

\* the run of thread 1 analysed, decided warn and is past its scam step
PastScamStep ==
    /\ pc[1] \in {"generate_utterance", "tts", "finalize", "done", "raised"}
    /\ st[1].should_analyze_now
    /\ st[1].decision.action = "warn"

\* C1: over any sequence of runs of one call, add_scam_to_database has been
\* invoked exactly once as soon as one run has gone through the scam step
\* (a run that decided warn), and not before; further warn runs add nothing.
C1_ExactlyOnce ==
    \A c \in Calls :
        /\ add_calls[c] = (IF Logged(c, "process_scam") >= 1 THEN 1 ELSE 0)
        /\ PastScamStep => add_calls[st[1].call_sid] = 1

\* C1 witness: three warn runs of the same call, one invocation
C1_Witness ==
    /\ pc[1] = "done"
    /\ Logged("CA1", "process_scam") = 3
    /\ add_calls["CA1"] = 1

\* C2: once scam_processed is true in the state of a call, no step of any
\* later run makes it false again.
C2_NeverReset ==
    [][\A c \in Calls : ckpt[c].scam_processed => ckpt'[c].scam_processed]_vars

\* C2 witness: the write to the database failed, a later run decided observe,
\* and the flag is still set
C2_Witness ==
    /\ pc[1] = "done"
    /\ ckpt["CA1"].scam_processed
    /\ ckpt["CA1"].scam_report_result # "Successfully added"
    /\ ckpt["CA1"].decision.action = "observe"
    /\ add_calls["CA1"] = 1

\* C10: a run analyses only when at least 30 s have passed since the
\* last_analysis_ts it sees, and two consecutive analyze_transcript
\* invocations for a call are at least 30 s apart.
C10_Cadence ==
    [][\A c \in Calls :
         analyze_calls'[c] # analyze_calls[c] =>
            /\ now - st[1].last_analysis_ts >= 30
            /\ analyze_calls[c] = 0 \/ now - last_analyze_at[c] >= 30]_vars

\* C10 witness: two invocations 5 s apart have both returned and there was
\* one analysis
C10_Witness ==
    /\ pc[1] = "done"
    /\ nruns = 2
    /\ analyze_calls["CA1"] = 1
    /\ now - last_analyze_at["CA1"] = 5


\* a run of thread t has executed init and has not yet executed finalize
InFlight(t) == pc[t] \notin {"idle", "init", "done", "raised"}

\* C3: runs of process_chunk for the same call_sid are serialized: no two
\* threads are between their init step and their finalize step for the same
\* call at the same time.
C3_Serialized ==
    \A t, u \in Threads :
        (InFlight(t) /\ InFlight(u) /\ st[t].call_sid = st[u].call_sid) => t = u

TextsOf(transcript) == [i \in 1 .. Len(transcript) |-> transcript[i].text]
IsHuman(entry) == entry.speaker # "guardian"
NoDuplicates(seq) == \A i, j \in 1 .. Len(seq) : seq[i] = seq[j] => i = j
Occurrences(seq, x) == Cardinality({i \in 1 .. Len(seq) : seq[i] = x})

\* C4: when the triggers for a call have all returned and no fragment was
\* submitted twice, the transcript holds exactly one entry per submitted
\* fragment.
C4_NoFragmentLost ==
    ((\A t \in Threads : pc[t] = "idle") /\ NoDuplicates(submitted)) =>
        LET texts == TextsOf(SelectSeq(ckpt["CA1"].transcript, IsHuman))
        IN  /\ Len(texts) = Len(submitted)
            /\ \A i \in 1 .. Len(submitted) : Occurrences(texts, submitted[i]) = 1

IsPrefix(a, b) == Len(a) <= Len(b) /\ SubSeq(b, 1, Len(a)) = a

\* C5: the transcript of a call only grows by appending, in the pipeline
\* state and in shared_state["transcript"]: every step keeps the entries
\* that were there, with their texts and in their order.
C5_AppendOnly ==
    [][/\ IsPrefix(TextsOf(shared.transcript), TextsOf(shared'.transcript))
       /\ \A c \in Calls : IsPrefix(TextsOf(ckpt[c].transcript), TextsOf(ckpt'[c].transcript))]_vars

\* C6: when a timer-driven run analyses, every chunk captured into
\* shared_state["transcript"] before the run is in the transcript passed to
\* analyze_transcript.
C6_CapturedIsAnalysed ==
    (timer_pc = "running" /\ pc[1] = "decide") =>
        \A i \in 1 .. Len(captured) :
            \E j \in 1 .. Len(last_analyzed) : last_analyzed[j].text = captured[i].text

\* C9: the decision get_current_state reports is the default or the decision
\* the decision step computed for the call, and when a timer-driven run has
\* completed it is the decision that run returned.
C9_DecisionIsPipelines ==
    [][/\ get_current_state(shared'.decision) \in
            {DefaultDecision, get_current_state(ckpt'["CA1"].decision)}
       /\ (timer_pc = "running" /\ timer_pc' = "sleep") =>
            get_current_state(shared'.decision) = get_current_state(st[1].decision)]_vars

\* C11: a run started by the periodic timer always analyses: whatever the
\* time since the last analysis of the call, its update step is followed by
\* the analyse step.
C11_ForcedAlwaysAnalyses ==
    [][(timer_pc = "running" /\ Leaves("update_transcript")) => pc'[1] = "analyze"]_vars

\* the fragment the run of thread 1 is about to ingest is already an entry of
\* the transcript
AlreadyIngested ==
    \E i \in 1 .. Len(st[1].transcript) :
        st[1].transcript[i] = Entry(st[1].speaker, st[1].last_chunk)

\* C12: re-ingestion is idempotent: when the submitted fragment is already in
\* the transcript, the update step leaves the transcript as it was.
C12_ReingestIdempotent ==
    [][(Leaves("update_transcript") /\ AlreadyIngested) =>
            ckpt'["CA1"].transcript = st[1].transcript]_vars

\* C13: a call whose caller number is in the scam database and whose
\* transcript is empty: once its first run is over the decision is warn,
\* scam_processed is true and add_scam_to_database was invoked once, and all
\* three stay so over the runs that follow.
C13_KnownBadEndToEnd ==
    (shared.caller_number = ScamNumber /\ nruns >= 1 /\ pc[1] \in {"done", "raised", "idle"}) =>
        /\ ckpt["CA1"].decision.action = "warn"
        /\ ckpt["CA1"].scam_processed
        /\ add_calls["CA1"] = 1

\* C13 witness: the second run of such a call has returned without analysing
\* again; the one analysis was of the empty transcript
C13_Witness ==
    /\ shared.caller_number = ScamNumber
    /\ nruns = 2
    /\ pc[1] = "done"
    /\ ~st[1].should_analyze_now
    /\ analyze_calls["CA1"] = 1
    /\ last_analyzed = << >>
    /\ st[1].reputation_check.risk_score = Tenths(KnownScamRisk)
    /\ st[1].scam_processed
    /\ add_calls["CA1"] = 1

\* C14: the reason of a decision names the dominating signal. Both scores
\* > 0 and reputation >= transcript (ties included): the reputation wording,
\* the known-scam one when the flag is set. Both > 0 and transcript >
\* reputation: the conversation-analysis wording. One score > 0: that signal
\* alone. 'No risk detected' exactly when neither is > 0.
C14_ReasonDominance ==
    pc[1] \notin {"idle", "decide"} =>
        LET phone == SignalsOf(st[1])[1]
            conv == SignalsOf(st[1])[2]
            known == st[1].reputation_check.known_scam
            head == st[1].decision.reason[1]
        IN  /\ (phone > 0 /\ conv > 0 /\ phone >= conv /\ known) =>
                  head = "High risk (known scam database match). Conversation analysis"
            /\ (phone > 0 /\ conv > 0 /\ phone >= conv /\ ~known) =>
                  head = "Combined risk (phone, conversation)"
            /\ (phone > 0 /\ conv > 0 /\ conv > phone) =>
                  head = "High risk from conversation analysis. Phone reputation"
            /\ (phone > 0 /\ conv <= 0 /\ known) => head = "Known scam number detected"
            /\ (phone > 0 /\ conv <= 0 /\ ~known) => head = "Phone reputation risk"
            /\ (phone <= 0 /\ conv > 0) => head = "Conversation analysis risk"
            /\ head = "No risk detected" <=> (phone <= 0 /\ conv <= 0)

\* C14 witness: reputation 90 (partial match, known scam) against a
\* transcript score of 90: the tie is reported with the reputation wording
C14_Witness ==
    /\ pc[1] = "done"
    /\ SignalsOf(st[1]) = <<Tenths(PartialMatchRisk), 900>>
    /\ st[1].decision.reason =
          <<"High risk (known scam database match). Conversation analysis", 90, 90, 0>>

\* C15: a reader that loads the snapshot while save_shared_state is writing
\* it sees the complete previous snapshot or the complete new one, nothing
\* else: every load of GET /calls/state leaves the reader with one of the two
C15_SnapshotAllOrNothing ==
    [][(reader_pc = "idle" /\ reader_pc' = "loaded")
          => flask_view' \in {prev_snapshot, snapshot}]_vars

\* C16: when a pipeline run completes and process_chunk has returned to the
\* caller that started it (the request handler or the timer), the published
\* snapshot carries the transcript, the analysis and the decision of that run
C16_SnapshotRefreshedAfterRun ==
    [][(pc[1] = "done" /\ pc'[1] = "idle")
          => /\ snapshot'.transcript = st[1].transcript
             /\ snapshot'.analysis = st[1].analysis
             /\ snapshot'.decision = st[1].decision]_vars

\* a pass of identify_speakers has just returned in this step
PassReturns == last_pass'.n = last_pass.n + 1

\* the indices the pass that just returned sent to the classifier
SentToClassifier ==
    LET needs == needs_identification(normalized_transcript(last_pass'.input))
    IN  {needs[k] : k \in 1 .. Len(needs)}

\* C17: speaker resolution is monotonic: an entry that an earlier pass
\* labelled as the protected user or as the counterpart is not sent to the
\* classifier by a pass that started after every earlier pass had returned,
\* and keeps its label when that pass returns
C17_ResolutionMonotonic ==
    [][(PassReturns /\ last_pass'.after = last_pass.n)
          => \A i \in resolved :
                i <= Len(shared.transcript)
                   => /\ i \notin SentToClassifier
                      /\ i <= Len(shared'.transcript)
                      /\ shared'.transcript[i].speaker = shared.transcript[i].speaker]_vars

\* C18: the resolver does not guess: a pass whose classifier raised or
\* returned a number of labels different from the number of entries sent
\* returns every entry with the speaker it had after normalisation, and in
\* any pass an entry paired with a label outside the allowed two keeps the
\* unresolved label "user"
C18_ResolverDoesNotGuess ==
    [][PassReturns
          => LET normalized == normalized_transcript(last_pass'.input)
                 needs == needs_identification(normalized)
                 labels == last_pass'.labels
                 result == shared'.transcript
             IN  /\ Len(result) = Len(normalized)
                 /\ (last_pass'.raised \/ Len(labels) # Len(needs))
                       => \A i \in 1 .. Len(normalized) : result[i].speaker = normalized[i].speaker
                 /\ \A k \in 1 .. Min(Len(needs), Len(labels)) :
                       labels[k] \notin allowed => result[needs[k]].speaker = "user"]_vars

\* C19: the reputation lookup is computed at most once per call: no step
\* brings the number of check_reputation calls of a call above one; once a
\* reputation_check is stored for the call no step calls check_reputation
\* for it or changes the stored value; and check_reputation is only called
\* by a run that knows a caller number
C19_ReputationOnce ==
    [][\A c \in Calls :
          /\ rep_calls'[c] <= 1
          /\ ckpt[c].reputation_check.present
                => /\ ckpt'[c].reputation_check = ckpt[c].reputation_check
                   /\ rep_calls'[c] = rep_calls[c]
          /\ rep_calls'[c] # rep_calls[c]
                => \E t \in Threads : /\ pc[t] = "check_reputation"
                                      /\ st[t].call_sid = c
                                      /\ st[t].caller_number # NoNumber]_vars

\* a third run has completed for a call whose reputation was looked up for
\* the known scam number on an earlier run, the caller number of the later
\* run being another one: one lookup, the stored value still the first
C19_Witness ==
    /\ nruns = 3
    /\ pc[1] = "done"
    /\ rep_calls["CA1"] = 1
    /\ st[1].caller_number = CleanNumber
    /\ st[1].reputation_check = [present |-> TRUE, risk_score |-> Tenths(KnownScamRisk), known_scam |-> TRUE]

\* entry a of the activity log of thread 1's state is directly followed by
\* entry b
LoggedInARow(a, b) ==
    \E i \in 1 .. Len(st[1].activity) - 1 :
        st[1].activity[i] = a /\ st[1].activity[i + 1] = b

\* C20: every run that returns has passed the finalize step: in the state a
\* returned run hands back, current_tool and current_tool_description are
\* empty and finalize_step is the last entry of the activity log, whichever
\* branch the run took
C20_FinalizeAlwaysRuns ==
    \A t \in Threads :
        pc[t] = "done"
           => /\ st[t].current_tool = ""
              /\ st[t].current_tool_description = ""
              /\ st[t].activity # << >>
              /\ st[t].activity[Len(st[t].activity)] = "finalize_step"

\* a run has returned after runs of the call took each of the three
\* branches: finalize straight after the transcript update (analysis
\* skipped), straight after the decision (speech skipped) and after tts
C20_Witness ==
    /\ pc[1] = "done"
    /\ LoggedInARow("update_transcript", "finalize_step")
    /\ LoggedInARow("decide_action", "finalize_step")
    /\ LoggedInARow("tts", "finalize_step")

\* C21: speech generation never fails the run: from the generate_utterance
\* step a run always goes on to tts, with no utterance (observe), the
\* generated text, or the template chosen by risk band when generation
\* failed, the case of no API key included
C21_SpeechFallbackNeverRaises ==
    [][\A t \in Threads :
          (pc[t] = "generate_utterance" /\ pc'[t] # pc[t])
             => /\ pc'[t] = "tts"
                /\ st'[t].guardian_utterance_text \in
                      {"", LlmMessage,
                       _fallback_guardian_message(st[t].analysis, ~HasSpokenBefore(st[t].transcript))}]_vars

\* the classifier was unavailable (no client, failed request) or its output
\* could not be parsed into a JSON object
ClassifierUnusable == {"no_client", "failed", "unparseable", "not_object"}

\* C22: when the classifier is unavailable or its output cannot be parsed,
\* the analysis step completes with the keyword-heuristic result: model
\* "fallback-heuristic", confidence at most 0.7, and the run goes on to the
\* decision
C22_AnalysisFallback ==
    [][(pc[1] = "analyze" /\ pc'[1] # "analyze" /\ last_response'.status \in ClassifierUnusable)
          => /\ pc'[1] = "decide"
             /\ st'[1].analysis = _fallback_analysis(st[1].transcript)
             /\ st'[1].analysis.model = "fallback-heuristic"
             /\ st'[1].analysis.confidence <= 70]_vars

\* a run has returned whose classifier output could not be parsed, on a
\* transcript whose keywords bring the heuristic confidence to its cap
C22_Witness ==
    /\ pc[1] = "done"
    /\ last_response.status = "unparseable"
    /\ st[1].analysis = [present |-> TRUE, risk_score |-> 800, confidence |-> 70,
                         model |-> "fallback-heuristic"]

\* C23: every result of analyze_transcript has risk_score within [0, 100]
\* and confidence within [0, 1], whatever the classifier returned, the path
\* of a failed schema validation included
C23_AnalysisInRange ==
    \A t \in Threads :
        st[t].analysis.present
           => /\ st[t].analysis.risk_score \in 0 .. 1000
              /\ st[t].analysis.confidence \in 0 .. 100

\* C24: the family alert fires at most once per call: send_family_alert_sms
\* is invoked at most once for a call, however many participants disconnect
C24_FamilyAlertOnce == \A c \in Calls : sms_calls[c] <= 1

\* C25: hangup cancels the timer without disturbing a run in flight: the
\* cancellation never takes effect while a process_chunk call is between its
\* start and the write-back of its results; once the timer is cancelled no
\* run starts; and in the FIXED entrypoint shared_state then carries the
\* analysis and the decision of the latest run
C25_HangupLeavesRunIntact ==
    [][/\ (timer_pc # "cancelled" /\ timer_pc' = "cancelled")
             => (timer_pc = "sleep" /\ pc[1] = "idle")
       /\ timer_pc = "cancelled"
             => (timer_pc' = "cancelled" /\ nruns' = nruns /\ pc' = pc)
       /\ (timer_pc' = "cancelled" /\ program = "telephony_agent_FIXED" /\ nruns' >= 1)
             => /\ shared'.analysis = ckpt'[shared'.call_sid].analysis
                /\ shared'.decision = ckpt'[shared'.call_sid].decision]_vars

\* the call was hung up after a run that warned, with chunks captured and
\* time left for the timer to wake again: the decision of the run is in
\* shared_state and the timer is cancelled
C25_Witness ==
    /\ timer_pc = "cancelled"
    /\ program = "telephony_agent_FIXED"
    /\ nruns = 1
    /\ captured # << >>
    /\ now + TimerPeriod <= MaxTime
    /\ shared.decision.action = "warn"
    /\ shared.decision = ckpt["CA1"].decision

\* C26: the participant numbers of a call are immutable after they are first
\* set: once the stored state of a call has a user_number or a
\* caller_number, no step changes it
C26_ParticipantNumbersImmutable ==
    [][\A c \in Calls :
          /\ ckpt[c].user_number # NoNumber => ckpt'[c].user_number = ckpt[c].user_number
          /\ ckpt[c].caller_number # NoNumber => ckpt'[c].caller_number = ckpt[c].caller_number]_vars
\* C27: should_report_to_authorities(decision) is true exactly when the action
\* is warn and the risk score is at least 80: a question at 55 is not reported,
\* a warn at 95 is; and on every decision the decision step produces it
\* coincides with action = warn
C27_ReportIffWarn ==
    /\ ~should_report_to_authorities([action |-> "question", reason |-> <<"", 0, 0, 0>>, risk_score |-> 550])
    /\ should_report_to_authorities([action |-> "warn", reason |-> <<"", 0, 0, 0>>, risk_score |-> 950])
    /\ \A t \in Threads :
         should_report_to_authorities(st[t].decision) <=> st[t].decision.action = "warn"
    /\ \A c \in Calls :
         should_report_to_authorities(ckpt[c].decision) <=> ckpt[c].decision.action = "warn"

\* the decision step has just decided to warn on a risk below 90
C27_Witness ==
    /\ pc[1] = "process_scam"
    /\ st[1].decision.action = "warn"
    /\ st[1].decision.risk_score < 900
    /\ should_report_to_authorities(st[1].decision)

\* the run of thread t was given a text that is missing, empty or whitespace
BlankRun(t) == pc[t] \notin {"idle"} /\ strip(st[t].last_chunk) = ""

\* a run given a blank text leaves the transcript as it is at update_transcript
C28_BlankAppendsNothing ==
    [][\A t \in Threads :
         BlankRun(t) /\ pc[t] \in {"init", "check_reputation", "update_transcript"}
            => st'[t].transcript = st[t].transcript]_vars

\* C28: a malformed fragment is silently dropped: process_chunk with a text
\* that is missing, empty or whitespace appends no transcript entry for it and
\* completes normally, without raising
C28_BlankFragmentDropped ==
    [][\A t \in Threads :
         BlankRun(t) =>
            /\ pc[t] \in {"init", "check_reputation", "update_transcript"}
                  => st'[t].transcript = st[t].transcript
            /\ pc'[t] # "raised"]_vars

\* the entries of the transcripts the system keeps: shared_state["transcript"]
\* and the transcript of every call's pipeline state
TranscriptEntries ==
    {shared.transcript[i] : i \in 1 .. Len(shared.transcript)} \cup
    UNION {{ckpt[c].transcript[i] : i \in 1 .. Len(ckpt[c].transcript)} : c \in Calls}

\* the three tags of the pipeline: n_update_transcript's "user" and "caller",
\* n_generate_utterance's "guardian"
CanonicalTags == {"user", "caller", "guardian"}

\* an entry that a human did not say: the voice agent's reply or the
\* pipeline's generated message
AssistantOriginated(entry) == entry.text \notin Fragments

\* C29: every entry put into the transcript carries one of the three canonical
\* speaker tags, and every assistant-originated entry, from the telephony
\* layer or generated by the pipeline, carries the guardian tag
C29_CanonicalSpeakerTags ==
    \A entry \in TranscriptEntries :
        /\ entry.speaker \in CanonicalTags
        /\ AssistantOriginated(entry) => entry.speaker = "guardian"

\* the same with the resolver's vocabulary: "user", "pottential_scammer" and
\* "agent" for the assistant
C29_ResolverVocabulary ==
    \A entry \in TranscriptEntries :
        /\ entry.speaker \in {"user", "pottential_scammer", "agent"}
        /\ AssistantOriginated(entry) => entry.speaker = "agent"

\* whatever the guardian tag is, the assistant-originated entries share it
C29_OneAssistantTag ==
    \A e1 \in TranscriptEntries, e2 \in TranscriptEntries :
        AssistantOriginated(e1) /\ AssistantOriginated(e2) => e1.speaker = e2.speaker

\* C30: in the run that first processes a scam, scam_processed is already
\* true when add_scam_to_database is invoked: the flag is set before the
\* collaborator is called, never after it returns
C30_FlagSetBeforeSideEffect ==
    \A c \in Calls :
        /\ flag_at_add[c] # "unset"
        /\ add_calls[c] >= 1 => flag_at_add[c] = "set"

\* the first scam of a call has been processed and the number written
C30_Witness ==
    /\ add_calls["CA1"] = 1
    /\ flag_at_add["CA1"] = "set"
    /\ pc[1] = "generate_utterance"
    /\ ckpt["CA1"].caller_number \in scam_file

\* thread t moves from one graph node to another in this step
Enters(t, node) == pc[t] # node /\ pc'[t] = node

\* C31: within one run the scam-processing step executes if and only if that
\* run computed a warn decision, and then before the utterance step; a run
\* that decides question goes to the utterance step without scam processing;
\* a run that decides observe or skips analysis executes neither step
C31_ScamStepOnlyOnWarn ==
    [][\A t \in Threads :
         /\ Enters(t, "process_scam") <=>
               pc[t] = "decide" /\ pc'[t] # pc[t] /\ st'[t].decision.action = "warn"
         /\ pc[t] = "process_scam" /\ pc'[t] # pc[t] => pc'[t] = "generate_utterance"
         /\ Enters(t, "generate_utterance") <=>
               \/ pc[t] = "process_scam" /\ pc'[t] # pc[t]
               \/ pc[t] = "decide" /\ pc'[t] # pc[t] /\ st'[t].decision.action = "question"
         /\ pc[t] = "decide" /\ pc'[t] # pc[t] /\ st'[t].decision.action = "observe"
               => pc'[t] = "finalize"
         /\ pc[t] = "update_transcript" /\ pc'[t] # pc[t] /\ ~st'[t].should_analyze_now
               => pc'[t] = "finalize"]_vars

\* a run that skipped analysis while the stored decision of the call is warn
\* has gone straight to finalize
C31_Witness ==
    /\ pc[1] = "finalize"
    /\ ~st[1].should_analyze_now
    /\ st[1].decision.action = "warn"
    /\ Logged("CA1", "process_scam") = 1

\* thread t executes the utterance step on a question or warn decision
SpeaksNow(t) ==
    /\ pc[t] = "generate_utterance"
    /\ pc'[t] # pc[t]
    /\ st[t].decision.action \in {"question", "warn"}

\* the step stored a text and appended it as one guardian entry
UtteranceAppended(t) ==
    /\ Len(st'[t].transcript) = Len(st[t].transcript) + 1
    /\ SubSeq(st'[t].transcript, 1, Len(st[t].transcript)) = st[t].transcript
    /\ st'[t].transcript[Len(st'[t].transcript)] = Entry("guardian", st'[t].guardian_utterance_text)
    /\ ckpt'[st[t].call_sid].transcript = st'[t].transcript

\* C32: on every run whose decision is question or warn, the generated
\* utterance is stored as guardian_utterance_text and appended to the
\* transcript as exactly one new entry with the guardian speaker tag and that
\* same text
C32_UtteranceAppendedOnce ==
    [][\A t \in Threads : SpeaksNow(t) => pc'[t] = "tts" /\ UtteranceAppended(t)]_vars

\* the same for the utterance steps that return
C32_AppendedWhenReturned ==
    [][\A t \in Threads : SpeaksNow(t) /\ pc'[t] = "tts" => UtteranceAppended(t)]_vars

\* the tags an entry of the assistant can carry
AssistantTags == {"agent", "guardian", "assistant"}

C34_NoStaleUtterance ==
    [][\A t \in Threads :
         pc[t] \in {"update_transcript", "decide"} /\ pc'[t] = "finalize"
            => /\ st'[t].guardian_utterance_text = ""
               /\ st'[t].guardian_utterance_audio_url = ""]_vars

\* C35: a fragment appended to shared_state["transcript"] while a speaker
\* identification task for an earlier fragment is running in the executor is
\* still in the transcript after that task stores its result
C35_FragmentSurvivesPass ==
    [][PassReturns
          => \A i \in Len(last_pass'.input) + 1 .. Len(shared.transcript) :
                /\ i <= Len(shared'.transcript)
                /\ shared'.transcript[i].text = shared.transcript[i].text]_vars

\* two runs of the same call overlap and both have decided warn
BothDecidedWarn(c) ==
    \E t, u \in Threads :
        /\ t # u
        /\ \A v \in {t, u} :
              /\ pc[v] \in {"process_scam", "generate_utterance", "tts", "finalize", "done", "raised"}
              /\ st[v].call_sid = c
              /\ st[v].should_analyze_now
              /\ st[v].decision.action = "warn"

\* C36: when two process_chunk invocations for the same call run concurrently
\* and both compute a warn decision, add_scam_to_database is still invoked at
\* most once for that call
C36_ConcurrentWarnAddsOnce ==
    \A c \in Calls : BothDecidedWarn(c) => add_calls[c] <= 1

\* C37: a pipeline run that raises inside the periodic timer is fatal to that
\* run only: when the run has ended, raised or not, the timer is back in its
\* sleep and a later tick runs the pipeline again
C37_TimerSurvivesRaise ==
    [][(timer_pc = "running" /\ timer_pc' # "running") => timer_pc' = "sleep"]_vars

\* what check_reputation gives, in this process and from now on, to a call
\* from this number
LaterLookup(number) == check_reputation(number, _load_scam_database(scam_cache, scam_file).db)

\* C38: after the scam-processing step has added a caller number to the scam
\* database, a later call from that number handled by the same process gets
\* known_scam = true, and a risk score of 90 or more, from check_reputation
C38_AddedNumberIsKnown ==
    \A number \in scam_file \ {NoNumber} :
        /\ LaterLookup(number).known_scam
        /\ LaterLookup(number).risk_score >= Tenths(PartialMatchRisk)

\* the entrypoint initialises a new call in this step
NewCallStarts == timer_pc \in {"cancelled", "stopped"} /\ timer_pc' = "sleep"

\* C39: no decision leaks from one call to the next: when the telephony
\* entrypoint has initialised a new call, get_current_state returns action
\* observe, whatever decision the previous call of the process ended with
C39_NoDecisionLeak ==
    [][NewCallStarts => get_current_state(shared'.decision).action = "observe"]_vars

====
